---- MODULE Spec2Model ----
(***************************************************************************)
(* A model of the 2D Ising Metropolis simulation:                          *)
(*   ising.py          IsingModel (__init__, _energy_change,               *)
(*                     metropolis_step)                                    *)
(*   observables.py    total_energy, magnetization                         *)
(*   run_simulation.py simulate                                            *)
(*                                                                         *)
(* Floating-point values are modelled by exact rationals <<num, den>>;     *)
(* the two non-finite outcomes of a NumPy division by zero are NaN and     *)
(* Inf.  Temperatures are integers.  A draw of np.random.rand is a grid    *)
(* point u / UDen with u in 0 .. UDen-1.                                   *)
(***************************************************************************)
EXTENDS Integers, Sequences, FiniteSets, TLC

VARIABLES
    \* arguments of simulate
    L_values, temps, n_eq, n_samp,
    \* control: the statement simulate (or the caller of the model) is at,
    \* and where a running metropolis_step returns to
    pc, ret,
    \* locals of simulate
    li, ti, eq, sm,
    E_acc, E2_acc, M_acc, M2_acc, M4_acc,
    E, m,
    heat_caps, mags, binders, results,
    \* fields of the IsingModel instance
    L, T, spins,
    \* locals of metropolis_step: loop variable, drawn site, energy change, draw
    k, i, j, delta_E, u,
    \* observation of the run (history, not program state)
    attempts, repeated, built, sweeps, reads, prov

simArgs == <<L_values, temps, n_eq, n_samp>>
simLocals == <<li, ti, eq, sm, heat_caps, mags, binders, results>>
accs == <<E_acc, E2_acc, M_acc, M2_acc, M4_acc>>
modelVars == <<L, T, spins>>
stepLocals == <<k, i, j, delta_E, u>>
history == <<attempts, repeated, built, sweeps, reads, prov>>
vars == <<simArgs, pc, ret, simLocals, accs, E, m, modelVars, stepLocals, history>>

----------------------------------------------------------------------------
(* Bounds of the model *)

\* np.random.rand() is drawn from the grid {0, 1/UDen, ..., (UDen-1)/UDen}
UDen == 4
\* largest n_eq and n_samp simulate is called with
MaxEq == 1
MaxSamp == 2

\* (size, temperature) of the models the sweep engine is run on directly
SweepModels == {<<2, 1>>, <<2, 8>>, <<3, 8>>}
\* the calls of simulate: one (L, T) configuration with every n_eq and n_samp,
\* several configurations with at most one sampling sweep each
Call(ls, ts, ne, ns) == [L_values |-> ls, temps |-> ts, n_eq |-> ne, n_samp |-> ns]
SimCalls ==
    {Call(ls, ts, ne, ns) : ls \in {<<1>>, <<2>>}, ts \in {<<0>>, <<1>>, <<8>>},
                            ne \in 0 .. MaxEq, ns \in 0 .. MaxSamp}
    \cup {Call(ls, ts, 0, ns) : ls \in {<<2>>, <<2, 1>>, <<1, 2>>},
                                ts \in {<<8, 1>>, <<1, 8>>}, ns \in 0 .. 1}
    \cup {Call(<<2>>, <<8, 1>>, 1, 1)}
    \cup {Call(<<3, 2>>, <<8>>, 0, 1)}

\* lattice sizes the observables are evaluated on
ObsSizes == {2, 3, 4}
\* the cells flipped by hand, on every lattice of the size: all of them on
\* the small lattices, a corner and an inner cell on the 4 x 4 ones
ProbeCells(n) == IF n >= 4 THEN {<<0, 0>>, <<1, 2>>} ELSE (0 .. n - 1) \X (0 .. n - 1)

----------------------------------------------------------------------------
(* ising.py *)

Spin == {-1, 1}
Cells(n) == (0 .. n - 1) \X (0 .. n - 1)
Lattices(n) == [Cells(n) -> Spin]

\* np.random.choice([-1, 1], (L, L)): any grid of +1 / -1
RandomChoice(n) == Lattices(n)

\* _energy_change with the left neighbour forgotten
EnergyChange_NoLeft(sp, n, r, c) ==
    2 * sp[<<r, c>>] * (sp[<<(r + 1) % n, c>>] + sp[<<(r - 1) % n, c>>]
                        + sp[<<r, (c + 1) % n>>])

\* IsingModel._energy_change(i, j)
EnergyChange(sp, n, r, c) ==
    LET spin == sp[<<r, c>>]
        neighbors == sp[<<(r + 1) % n, c>>] + sp[<<(r - 1) % n, c>>]
                     + sp[<<r, (c + 1) % n>>] + sp[<<r, (c - 1) % n>>]
    IN  2 * spin * neighbors

\* the flip written  self.spins[i, j] -= 1
Flip_Decrement(sp, r, c) == [sp EXCEPT ![<<r, c>>] = @ - 1]

\* self.spins[i, j] *= -1
Flip(sp, r, c) == [sp EXCEPT ![<<r, c>>] = -1 * @]

\* floor(ExpScale * exp(-dE / temp)) for the energy changes dE > 0 a square
\* lattice produces (4 and 8) and the temperatures of the model; at temp = 0
\* NumPy evaluates -dE / 0 to -inf (a warning, no error) and exp(-inf) to 0
ExpScale == 1000000
ExpNeg(dE, temp) ==
    CASE dE = 0 -> ExpScale
      [] temp = 0 -> 0
      [] temp = 1 /\ dE = 4 -> 18315
      [] temp = 1 /\ dE = 8 -> 335
      [] temp = 8 /\ dE = 4 -> 606530
      [] temp = 8 /\ dE = 8 -> 367879

\* the comparison turned round: rand() > exp(-delta_E / T)
BoltzmannTest_Inverted(draw, dE, temp) ==
    draw * ExpScale > UDen * ExpNeg(dE, temp)

\* np.random.rand() < np.exp(-delta_E / self.T), the draw being draw / UDen
BoltzmannTest(draw, dE, temp) == draw * ExpScale < UDen * ExpNeg(dE, temp)

\* the condition of the if in metropolis_step
Accept(dE, temp, draw) == dE <= 0 \/ BoltzmannTest(draw, dE, temp)

----------------------------------------------------------------------------
(* observables.py *)

\* the double loop of total_energy, cell idx = i * L + j, E the running value
RECURSIVE EnergyLoop(_, _, _, _)
EnergyLoop(sp, n, idx, acc) ==
    IF idx >= n * n THEN acc
    ELSE LET r == idx \div n
             c == idx % n
             right == sp[<<r, (c + 1) % n>>]
             down == sp[<<(r + 1) % n, c>>]
         IN  EnergyLoop(sp, n, idx + 1, acc - sp[<<r, c>>] * (right + down))

\* total_energy looking at all four neighbours: every pair counted twice
RECURSIVE EnergyLoop_AllFour(_, _, _, _)
EnergyLoop_AllFour(sp, n, idx, acc) ==
    IF idx >= n * n THEN acc
    ELSE LET r == idx \div n
             c == idx % n
         IN  EnergyLoop_AllFour(sp, n, idx + 1,
                                acc - sp[<<r, c>>] * (sp[<<r, (c + 1) % n>>]
                                                      + sp[<<(r + 1) % n, c>>]
                                                      + sp[<<r, (c - 1) % n>>]
                                                      + sp[<<(r - 1) % n, c>>]))
total_energy_AllFour(sp, n) == EnergyLoop_AllFour(sp, n, 0, 0)

total_energy(sp, n) == EnergyLoop(sp, n, 0, 0)

RECURSIVE SumOver(_, _)
SumOver(sp, S) ==
    IF S = {} THEN 0
    ELSE LET x == CHOOSE y \in S : TRUE
         IN  sp[x] + SumOver(sp, S \ {x})

\* model.spins.sum()
magnetization(sp, n) == SumOver(sp, Cells(n))

Abs(x) == IF x < 0 THEN -x ELSE x

----------------------------------------------------------------------------
(* Evaluating the observables on a lattice (specification SpecObs) *)

NoModel == [c \in {} |-> 0]

Idle ==
    /\ L_values = <<>> /\ temps = <<>> /\ n_eq = 0 /\ n_samp = 0
    /\ li = 0 /\ ti = 0 /\ eq = 0 /\ sm = 0
    /\ E_acc = 0 /\ E2_acc = 0 /\ M_acc = 0 /\ M2_acc = 0 /\ M4_acc = 0
    /\ E = 0 /\ m = 0
    /\ heat_caps = <<>> /\ mags = <<>> /\ binders = <<>>
    /\ results = <<>>
    /\ k = 0 /\ i = 0 /\ j = 0 /\ delta_E = 0 /\ u = 0
    /\ attempts = 0 /\ repeated = FALSE /\ built = 1 /\ sweeps = 0
    /\ reads = 0 /\ prov = <<>>

InitObs ==
    /\ Idle
    /\ pc = "built" /\ ret = "built"
    /\ L \in ObsSizes
    /\ T = 1
    /\ spins \in RandomChoice(L)

\* E = total_energy(model); m = magnetization(model)
ReadObservables ==
    /\ pc = "built"
    /\ E' = total_energy(spins, L)
    /\ m' = magnetization(spins, L)
    /\ reads' = reads + 1
    /\ pc' = "read"
    /\ UNCHANGED <<simArgs, ret, simLocals, accs, modelVars, stepLocals,
                   attempts, repeated, built, sweeps, prov>>

\* the hand-made check of the energy change at the cell (i, j) = (r, c):
\* delta_E = _energy_change(i, j) and E = total_energy(model) are taken, then
\* spins[i, j] *= -1
ProbeFlip(r, c) ==
    /\ pc = "built"
    /\ delta_E' = EnergyChange(spins, L, r, c)
    /\ E' = total_energy(spins, L)
    /\ spins' = Flip(spins, r, c)
    /\ i' = r
    /\ j' = c
    /\ pc' = "flipped"
    /\ UNCHANGED <<simArgs, ret, simLocals, accs, m, L, T, k, u, history>>

NextObs ==
    \/ ReadObservables
    \/ \E x \in ProbeCells(L) : ProbeFlip(x[1], x[2])

SpecObs == InitObs /\ [][NextObs]_vars

----------------------------------------------------------------------------
(* metropolis_step, one action per flip attempt *)

\* the loop written  range(self.L)
SweepLength_Side(n) == n

\* range(self.L * self.L)
SweepLength(n) == n * n

\* no np.random.rand() was evaluated (delta_E <= 0 short-circuits the or)
NoDraw == -1

\* model.metropolis_step() is entered; back is where it returns to
EnterStep(back) ==
    /\ pc' = "sweep"
    /\ ret' = back
    /\ k' = 0
    /\ attempts' = 0
    /\ repeated' = FALSE
    /\ UNCHANGED <<i, j, delta_E, u>>

\* one iteration of the for loop: the site (r, c) and the uniform draw
Attempt(r, c, draw) ==
    /\ pc = "sweep"
    /\ k < SweepLength(L)
    /\ LET dE == EnergyChange(spins, L, r, c)
       IN  /\ delta_E' = dE
           /\ u' = draw
           /\ spins' = IF Accept(dE, T, draw) THEN Flip(spins, r, c) ELSE spins
    /\ i' = r
    /\ j' = c
    /\ k' = k + 1
    /\ attempts' = attempts + 1
    /\ repeated' = (repeated \/ (k > 0 /\ i = r /\ j = c))
    /\ UNCHANGED <<simArgs, pc, ret, simLocals, accs, E, m, L, T,
                   built, sweeps, reads, prov>>

\* the for loop is exhausted and metropolis_step returns; its locals (and the
\* record of a repeated site) go with its frame
StepReturn ==
    /\ pc = "sweep"
    /\ k >= SweepLength(L)
    /\ pc' = ret
    /\ i' = 0 /\ j' = 0 /\ delta_E' = 0 /\ u' = 0
    /\ repeated' = FALSE
    /\ sweeps' = IF ret = "built" THEN sweeps ELSE sweeps + 1
    /\ UNCHANGED <<simArgs, ret, simLocals, accs, E, m, modelVars, k,
                   attempts, built, reads, prov>>

\* np.random.randint(0, L) twice, and np.random.rand() when it is evaluated
SomeAttempt ==
    \E r \in 0 .. L - 1, c \in 0 .. L - 1 :
        \E draw \in IF EnergyChange(spins, L, r, c) <= 0 THEN {NoDraw}
                     ELSE 0 .. UDen - 1 :
            Attempt(r, c, draw)

----------------------------------------------------------------------------
(* A model driven sweep after sweep (specification SpecSweep) *)

InitSweep ==
    /\ Idle
    /\ pc = "built" /\ ret = "built"
    /\ \E lt \in SweepModels : L = lt[1] /\ T = lt[2]
    /\ spins \in RandomChoice(L)

CallStep ==
    /\ pc = "built"
    /\ EnterStep("built")
    /\ UNCHANGED <<simArgs, simLocals, accs, E, m, modelVars,
                   built, sweeps, reads, prov>>

NextSweep ==
    \/ CallStep
    \/ SomeAttempt
    \/ StepReturn

SpecSweep == InitSweep /\ [][NextSweep]_vars

----------------------------------------------------------------------------
(* run_simulation.py: simulate (specification Spec) *)

\* a / b of two floats, b > 0, kept exact
Rat(num, den) == <<num, den>>
\* the non-finite float64 values
NaN == <<0, 0>>
Inf == <<1, 0>>
\* a NumPy float64 division: x / 0 is nan (x = 0) or inf, with a warning only
NpDiv(num, den) ==
    IF den = 0 THEN (IF num = 0 THEN NaN ELSE Inf) ELSE Rat(num, den)

\* C = (E2_mean - E_mean**2) / (T**2 * L * L), the means being acc / n
HeatCapacity(e, e2, n, temp, size) ==
    NpDiv(n * e2 - e * e, n * n * temp * temp * size * size)

\* the Binder cumulant with the undefined 0 / 0 replaced by 0
Binder_Clamped(m2, m4, n) ==
    IF m2 = 0 THEN Rat(0, 1) ELSE Rat(3 * m2 * m2 - n * m4, 3 * m2 * m2)

\* U = 1 - M4_mean / (3 * M2_mean**2)
Binder(m2, m4, n) == NpDiv(3 * m2 * m2 - n * m4, 3 * m2 * m2)

\* the magnetization divided by one L only
PerSpinMag_PerRow(mabs, n, size) == Rat(mabs, n * size)

\* M_acc / (n_samp * L * L)
PerSpinMag(mabs, n, size) == Rat(mabs, n * size * size)

\* the accumulators set to zero once, before the loops, and never again
ResetAccumulators_Once == UNCHANGED accs

\* E_acc = E2_acc = 0.0; M_acc = M2_acc = M4_acc = 0.0
ResetAccumulators ==
    E_acc' = 0 /\ E2_acc' = 0 /\ M_acc' = 0 /\ M2_acc' = 0 /\ M4_acc' = 0

\* the three lists created once, before the loop over L_values
FreshLists_Once == UNCHANGED <<heat_caps, mags, binders>>

\* heat_caps, mags, binders = [], [], []
FreshLists == heat_caps' = <<>> /\ mags' = <<>> /\ binders' = <<>>

InitSim ==
    /\ \E call \in SimCalls :
           /\ L_values = call.L_values
           /\ temps = call.temps
           /\ n_eq = call.n_eq
           /\ n_samp = call.n_samp
    /\ pc = "for_L" /\ ret = "none"
    /\ li = 1 /\ ti = 1 /\ eq = 0 /\ sm = 0
    /\ E_acc = 0 /\ E2_acc = 0 /\ M_acc = 0 /\ M2_acc = 0 /\ M4_acc = 0
    /\ E = 0 /\ m = 0
    /\ heat_caps = <<>> /\ mags = <<>> /\ binders = <<>>
    /\ results = <<>>
    /\ L = 0 /\ T = 0 /\ spins = NoModel
    /\ k = 0 /\ i = 0 /\ j = 0 /\ delta_E = 0 /\ u = 0
    /\ attempts = 0 /\ repeated = FALSE /\ built = 0 /\ sweeps = 0
    /\ reads = 0 /\ prov = <<>>

\* for L in L_values: heat_caps, mags, binders = [], [], []
ForL ==
    /\ pc = "for_L"
    /\ li <= Len(L_values)
    /\ FreshLists
    /\ ti' = 1
    /\ pc' = "for_T"
    /\ UNCHANGED <<simArgs, ret, li, eq, sm, results, accs, E, m, modelVars,
                   stepLocals, history>>

\* return results
Return ==
    /\ pc = "for_L"
    /\ li > Len(L_values)
    /\ pc' = "done"
    /\ UNCHANGED <<simArgs, ret, simLocals, accs, E, m, modelVars, stepLocals,
                   history>>

\* for idx, T in enumerate(temps): model = IsingModel(L, T)
Construct ==
    /\ pc = "for_T"
    /\ ti <= Len(temps)
    /\ L' = L_values[li]
    /\ T' = temps[ti]
    /\ spins' \in RandomChoice(L')
    /\ eq' = 0
    /\ pc' = "equil"
    /\ built' = built + 1
    /\ sweeps' = 0
    /\ reads' = 0
    /\ UNCHANGED <<simArgs, ret, li, ti, sm, heat_caps, mags, binders, results,
                   accs, E, m, stepLocals, attempts, repeated, prov>>

\* results[L] = {...}, after the last temperature
StoreL ==
    /\ pc = "for_T"
    /\ ti > Len(temps)
    /\ results' = (L_values[li] :> [heat_capacity |-> heat_caps,
                                    magnetization |-> mags,
                                    binder |-> binders]) @@ results
    /\ li' = li + 1
    /\ pc' = "for_L"
    /\ UNCHANGED <<simArgs, ret, ti, eq, sm, heat_caps, mags, binders, accs,
                   E, m, modelVars, stepLocals, history>>

\* for _ in range(n_eq): model.metropolis_step()
EquilSweep ==
    /\ pc = "equil"
    /\ eq < n_eq
    /\ eq' = eq + 1
    /\ EnterStep("equil")
    /\ UNCHANGED <<simArgs, li, ti, sm, heat_caps, mags, binders, results,
                   accs, E, m, modelVars, built, sweeps, reads, prov>>

\* the end of the equilibration loop and the zeroing of the accumulators
StartSampling ==
    /\ pc = "equil"
    /\ eq >= n_eq
    /\ ResetAccumulators
    /\ sm' = 0
    /\ pc' = "sample"
    /\ UNCHANGED <<simArgs, ret, li, ti, eq, heat_caps, mags, binders, results,
                   E, m, modelVars, stepLocals, history>>

\* for _ in range(n_samp): model.metropolis_step()
SampleSweep ==
    /\ pc = "sample"
    /\ sm < n_samp
    /\ sm' = sm + 1
    /\ EnterStep("observe")
    /\ UNCHANGED <<simArgs, li, ti, eq, heat_caps, mags, binders, results,
                   accs, E, m, modelVars, built, sweeps, reads, prov>>

\* E = total_energy(model); m = magnetization(model); the five += lines
Observe ==
    /\ pc = "observe"
    /\ LET en == total_energy(spins, L)
           mg == magnetization(spins, L)
       IN  /\ E' = en
           /\ m' = mg
           /\ E_acc' = E_acc + en
           /\ E2_acc' = E2_acc + en * en
           /\ M_acc' = M_acc + Abs(mg)
           /\ M2_acc' = M2_acc + mg * mg
           /\ M4_acc' = M4_acc + mg * mg * mg * mg
    /\ reads' = reads + 1
    /\ pc' = "sample"
    /\ UNCHANGED <<simArgs, ret, simLocals, modelVars, stepLocals,
                   attempts, repeated, built, sweeps, prov>>

\* E_mean = E_acc / n_samp with n_samp = 0: 0.0 / 0 raises ZeroDivisionError
RaiseZeroDivision ==
    /\ pc = "sample"
    /\ sm >= n_samp
    /\ n_samp = 0
    /\ pc' = "raised"
    /\ UNCHANGED <<simArgs, ret, simLocals, accs, E, m, modelVars, stepLocals,
                   history>>

\* the means, C and U, and the three appends
Finalize ==
    /\ pc = "sample"
    /\ sm >= n_samp
    /\ n_samp # 0
    /\ LET C == HeatCapacity(E_acc, E2_acc, n_samp, T, L)
           U == Binder(M2_acc, M4_acc, n_samp)
           mag == PerSpinMag(M_acc, n_samp, L)
       IN  /\ heat_caps' = Append(heat_caps, C)
           /\ mags' = Append(mags, mag)
           /\ binders' = Append(binders, U)
           /\ prov' = Append(prov, [size |-> L, temp |-> T, C |-> C,
                                    mag |-> mag, U |-> U,
                                    e |-> E_acc, e2 |-> E2_acc, mabs |-> M_acc,
                                    m2 |-> M2_acc, m4 |-> M4_acc])
    /\ ti' = ti + 1
    /\ pc' = "for_T"
    /\ UNCHANGED <<simArgs, ret, li, eq, sm, results, accs, E, m, modelVars,
                   stepLocals, attempts, repeated, built, sweeps, reads>>

Next ==
    \/ ForL
    \/ Return
    \/ Construct
    \/ StoreL
    \/ EquilSweep
    \/ StartSampling
    \/ SampleSweep
    \/ SomeAttempt
    \/ StepReturn
    \/ Observe
    \/ RaiseZeroDivision
    \/ Finalize

Spec == InitSim /\ [][Next]_vars

\* the calls with more than one temperature; simulate is one sequential
\* call, which keeps running until it returns or raises
InitBatch == InitSim /\ Len(temps) > 1
SpecBatch == InitBatch /\ [][Next]_vars /\ WF_vars(Next)

----------------------------------------------------------------------------
(* The claims.  What follows states the properties in terms of the lattice *)
(* itself, not of the operators above.                                     *)

\* the row or column after / before x on a ring of n
After(x, n) == IF x = n - 1 THEN 0 ELSE x + 1
Before(x, n) == IF x = 0 THEN n - 1 ELSE x - 1

\* the four periodic neighbours of (r, c): below, above, right, left
NeighbourSum(sp, n, r, c) ==
    sp[<<After(r, n), c>>] + sp[<<Before(r, n), c>>]
    + sp[<<r, After(c, n)>>] + sp[<<r, Before(c, n)>>]

\* the sum of f over the cells of S
RECURSIVE CellSum(_, _)
CellSum(f, S) ==
    IF S = {} THEN 0
    ELSE LET x == CHOOSE y \in S : TRUE
         IN  f[x] + CellSum(f, S \ {x})

\* sp with the sign of the one cell at (r, c) inverted
SignInverted(sp, r, c) ==
    [x \in DOMAIN sp |-> IF x = <<r, c>> THEN -sp[x] ELSE sp[x]]

\* the step is one flip attempt of metropolis_step
IsAttempt == attempts' = attempts + 1

\* C1: in every state of a model of size L >= 2, freshly constructed or after
\* any number of flip attempts and sweeps at any temperature and for any
\* draws, the grid has exactly the L x L cells and each holds +1 or -1.
C1_SpinsAreSigns ==
    /\ DOMAIN spins = Cells(L)
    /\ \A x \in Cells(L) : spins[x] = 1 \/ spins[x] = -1

\* a sweep has run to its last attempt, which flipped a spin unconditionally
C1_Witness ==
    /\ pc = "sweep" /\ L >= 2
    /\ attempts = L * L
    /\ delta_E <= 0

\* C3: a call of metropolis_step returns after exactly L*L flip attempts;
\* each attempt draws a site (i, j) with 0 <= i, j < L, whatever was drawn
\* before, and changes no cell but that one; the lattice changes in no
\* other step.
C3_SweepIsLSquaredAttempts ==
    [][ /\ (pc = "sweep" /\ pc' # "sweep") => attempts = L * L
        /\ IsAttempt =>
              /\ attempts < L * L
              /\ i' \in 0 .. L - 1 /\ j' \in 0 .. L - 1
              /\ \A x \in Cells(L) \ {<<i', j'>>} : spins'[x] = spins[x]
        /\ spins' # spins => IsAttempt ]_vars

\* all L*L attempts of a sweep are made and one site was drawn twice in a
\* row, so some site was never drawn
C3_Witness ==
    /\ pc = "sweep"
    /\ attempts = L * L
    /\ repeated

\* C4: a flip attempt at (i, j) with dE = 2 * s * nb flips the spin when
\* dE <= 0, and when dE > 0 flips it exactly if the draw u / UDen is below
\* exp(-dE / T); a flip inverts the sign at (i, j) only, a rejection leaves
\* the whole lattice as it was.
C4_MetropolisRule ==
    [][ IsAttempt =>
          LET dE == 2 * spins[<<i', j'>>] * NeighbourSum(spins, L, i', j')
              below == u' * ExpScale < UDen * ExpNeg(dE, T)
              flips == dE <= 0 \/ (dE > 0 /\ below)
          IN  /\ delta_E' = dE
              /\ flips => spins' = SignInverted(spins, i', j')
              /\ ~flips => spins' = spins ]_vars

\* an energy-raising flip was just accepted on a draw u > 0
C4_Witness ==
    /\ pc = "sweep" /\ k > 0
    /\ delta_E > 0
    /\ u > 0
    /\ u * ExpScale < UDen * ExpNeg(delta_E, T)
    /\ 2 * (-spins[<<i, j>>]) * NeighbourSum(spins, L, i, j) = delta_E

\* C5: flipping only the spin at (i, j) changes total_energy by exactly the
\* value _energy_change(i, j) returned before the flip, which is
\* 2 * s(i, j) * (sum of the four periodic neighbours), s the spin before.
C5_EnergyChangeConsistent ==
    pc = "flipped" =>
        /\ total_energy(spins, L) - E = delta_E
        /\ delta_E = 2 * (-spins[<<i, j>>]) * NeighbourSum(spins, L, i, j)

\* the corner cell of a 4 x 4 lattice, two of whose neighbours wrap, was
\* flipped at a cost in energy
C5_Witness ==
    /\ pc = "flipped"
    /\ L = 4 /\ i = 0 /\ j = 0
    /\ delta_E = 8

\* C6: a reading of total_energy is the sum over the cells of
\* -s(i,j) * (s(i, j+1 mod L) + s(i+1 mod L, j)), each bond once (half the
\* sum over the cells of -s * (four neighbours)); a reading of magnetization
\* is the sum of the spins; reading changes no cell and a second evaluation
\* on the lattice just read gives the values read; on the 4 x 4 lattice of
\* all +1 the readings are -32 and 16.
C6_RightDown(sp, n) ==
    [x \in Cells(n) |->
        -sp[x] * (sp[<<x[1], After(x[2], n)>>] + sp[<<After(x[1], n), x[2]>>])]
C6_AllBonds(sp, n) ==
    [x \in Cells(n) |-> -sp[x] * NeighbourSum(sp, n, x[1], x[2])]
C6_Reading ==
    pc = "read" =>
        /\ E = CellSum(C6_RightDown(spins, L), Cells(L))
        /\ 2 * E = CellSum(C6_AllBonds(spins, L), Cells(L))
        /\ m = Cardinality({x \in Cells(L) : spins[x] = 1})
               - Cardinality({x \in Cells(L) : spins[x] = -1})
        /\ E = total_energy(spins, L)
        /\ m = magnetization(spins, L)
        /\ (L = 4 /\ \A x \in Cells(L) : spins[x] = 1) => (m = 16 /\ E = -32)
C6_Observables ==
    /\ []C6_Reading
    /\ [][reads' # reads => spins' = spins]_vars

\* the observables of the 4 x 4 lattice of all +1 have been read
C6_Witness ==
    /\ pc = "read"
    /\ L = 4
    /\ \A x \in Cells(L) : spins[x] = 1
    /\ m = 16 /\ E = -32

\* the phases of the current (L, T) configuration
InEquilibration == pc = "equil" \/ (pc = "sweep" /\ ret = "equil")
InSampling == pc \in {"sample", "observe"} \/ (pc = "sweep" /\ ret = "observe")

\* the energy and the magnetization of the lattice, from the cells
LatticeEnergy == CellSum(C6_RightDown(spins, L), Cells(L))
LatticeMagnetization ==
    Cardinality({x \in Cells(L) : spins[x] = 1})
    - Cardinality({x \in Cells(L) : spins[x] = -1})

\* C2: for each (L, T) configuration simulate constructs a new lattice, then
\* runs exactly n_eq sweeps in which nothing is read or accumulated, then
\* n_samp times one complete sweep followed by one reading of the energy and
\* the magnetization added to accumulators that were zero when sampling
\* began; nothing is read during a sweep and the derived values are computed
\* after n_eq + n_samp sweeps and n_samp readings.
C2_PhaseState ==
    /\ InEquilibration => (reads = 0 /\ sweeps = eq - (IF pc = "sweep" THEN 1 ELSE 0))
    /\ InEquilibration => (sweeps <= n_eq /\ eq <= n_eq)
    /\ InSampling =>
          /\ sm <= n_samp
          /\ reads = sm - (IF pc = "sample" THEN 0 ELSE 1)
          /\ sweeps = n_eq + sm - (IF pc = "sweep" THEN 1 ELSE 0)
          /\ reads = 0 =>
                (E_acc = 0 /\ E2_acc = 0 /\ M_acc = 0 /\ M2_acc = 0 /\ M4_acc = 0)
C2_PhaseStep ==
    \* a new configuration starts with a new lattice, in equilibration
    /\ built' # built =>
          (built' = built + 1 /\ pc' = "equil" /\ sweeps' = 0 /\ reads' = 0
           /\ pc = "for_T")
    \* nothing is accumulated outside a reading, but for the zeroing
    /\ (accs' # accs /\ reads' = reads) =>
          (pc = "equil" /\ pc' = "sample" /\ sweeps = n_eq /\ reads = 0
           /\ E_acc' = 0 /\ E2_acc' = 0 /\ M_acc' = 0 /\ M2_acc' = 0
           /\ M4_acc' = 0)
    \* sampling begins after exactly n_eq sweeps, from zero
    /\ (pc = "equil" /\ pc' = "sample") =>
          (sweeps = n_eq /\ reads = 0 /\ accs' = <<0, 0, 0, 0, 0>>)
    \* a reading follows a complete sweep and is added to the accumulators
    /\ (reads' # reads /\ built' = built) =>
          /\ reads' = reads + 1
          /\ pc = "observe" /\ attempts = L * L
          /\ sweeps = n_eq + reads + 1
          /\ spins' = spins
          /\ E_acc' = E_acc + LatticeEnergy
          /\ E2_acc' = E2_acc + LatticeEnergy * LatticeEnergy
          /\ M_acc' = M_acc + Abs(LatticeMagnetization)
          /\ M2_acc' = M2_acc + LatticeMagnetization * LatticeMagnetization
          /\ M4_acc' = M4_acc + LatticeMagnetization * LatticeMagnetization
                               * LatticeMagnetization * LatticeMagnetization
    \* the derived values come after the last sampling iteration
    /\ prov' # prov =>
          (pc = "sample" /\ sweeps = n_eq + n_samp /\ reads = n_samp
           /\ Len(prov') = Len(prov) + 1)
    \* the phases follow one another
    /\ (pc' = "sample" /\ pc # "sample") => pc \in {"equil", "observe"}
    /\ (pc' = "equil" /\ pc # "equil") => (pc = "for_T" \/ (pc = "sweep" /\ ret = "equil"))
C2_Phases ==
    /\ []C2_PhaseState
    /\ [][C2_PhaseStep]_vars

\* the second reading of a configuration that had one equilibration sweep
\* has been accumulated
C2_Witness ==
    /\ pc = "sample"
    /\ n_eq = 1 /\ n_samp = 2
    /\ sweeps = 3 /\ reads = 2
    /\ E2_acc > 0

\* the elements of a sequence
Range(q) == {q[x] : x \in 1 .. Len(q)}

\* C7: a call with a lattice size L <= 1, a temperature T <= 0 or
\* n_samp <= 0 fails before any work: no lattice is ever constructed, no
\* sweep is made, no result is produced and the call does not return.
InvalidCall ==
    \/ \E x \in Range(L_values) : x <= 1
    \/ \E x \in Range(temps) : x <= 0
    \/ n_samp <= 0
C7_FailFast ==
    InvalidCall =>
        (built = 0 /\ sweeps = 0 /\ prov = <<>> /\ pc # "done")

\* the run of the configuration at position (a, b) of L_values x temps
RunOf(a, b) == prov[(a - 1) * Len(temps) + b]

\* every configuration has run and is in the table that is returned
FullTable ==
    /\ pc = "done"
    /\ Len(prov) = Len(L_values) * Len(temps)
    /\ DOMAIN results = Range(L_values)
    /\ \A a \in 1 .. Len(L_values) :
          Len(results[L_values[a]].binder) = Len(temps)

\* C8: with n_samp >= 1 no error is raised; a configuration whose sampled
\* magnetizations are all 0 gets the non-finite Binder cumulant nan, which
\* stays in the list and in the table as it is, and simulate goes on to run
\* every remaining configuration and returns the full table.
C8_Recorded ==
    /\ n_samp >= 1 => pc # "raised"
    /\ \A x \in 1 .. Len(prov) : prov[x].m2 = 0 => prov[x].U = NaN
    /\ pc = "for_T" =>
          \A b \in 1 .. Len(binders) :
              binders[b] = prov[Len(prov) - Len(binders) + b].U
    /\ pc = "done" =>
          \A a \in 1 .. Len(L_values), b \in 1 .. Len(temps) :
              RunOf(a, b).m2 = 0 => results[L_values[a]].binder[b] = NaN
C8_DegeneracyDoesNotAbort ==
    /\ []C8_Recorded
    /\ (\E x \in 1 .. Len(prov) : prov[x].m2 = 0) ~> FullTable

\* simulate has returned a table of two configurations of which the first,
\* sampled at zero magnetization only, has the Binder cumulant nan
C8_Witness ==
    /\ pc = "done"
    /\ Len(temps) = 2 /\ n_samp >= 1
    /\ prov[1].m2 = 0
    /\ results[L_values[1]].binder[1] = NaN
    /\ results[L_values[1]].binder[2] # NaN

\* C9: when simulate returns, the driver has run once for every pair of
\* L_values x temps, in that order, and the entry under each L is made of
\* sequences of len(temps) elements, the k-th being what the run at
\* (L, temps[k]) produced.
C9_TableByTemperature ==
    pc = "done" =>
        /\ Len(prov) = Len(L_values) * Len(temps)
        /\ built = Len(L_values) * Len(temps)
        /\ DOMAIN results = Range(L_values)
        /\ \A a \in 1 .. Len(L_values) :
              LET row == results[L_values[a]]
              IN  /\ Len(row.heat_capacity) = Len(temps)
                  /\ Len(row.magnetization) = Len(temps)
                  /\ Len(row.binder) = Len(temps)
                  /\ \A b \in 1 .. Len(temps) :
                        /\ RunOf(a, b).size = L_values[a]
                        /\ RunOf(a, b).temp = temps[b]
                        /\ row.heat_capacity[b] = RunOf(a, b).C
                        /\ row.magnetization[b] = RunOf(a, b).mag
                        /\ row.binder[b] = RunOf(a, b).U

\* simulate has returned from a call with two sizes and two temperatures
\* whose four runs gave different magnetizations at the two temperatures
C9_Witness ==
    /\ pc = "done"
    /\ Len(L_values) = 2 /\ Len(temps) = 2
    /\ results[2].magnetization[1] # results[2].magnetization[2]

IsQuotient(v, p, q) ==
    IF q = 0 THEN v = (IF p = 0 THEN NaN ELSE Inf)
    ELSE v[2] # 0 /\ v[1] * q = p * v[2]

====
